---- MODULE Spec2Model ----
(***************************************************************************)
(* Model of the Steam shortcut registry of LinuxSteamShortcutHelper        *)
(* (src/main.py): identifier derivation (generate_exeid,                   *)
(* signed_to_unsigned), the add-operation (add_game_to_steam) and the      *)
(* persistence protocol (backup_and_save).                                 *)
(*                                                                         *)
(* Python integers are unbounded, and the values handled here reach 2^32,  *)
(* so a Python int is carried as two limbs: [hi, lo] stands for            *)
(* hi * 2^16 + lo with lo in 0 .. 2^16 - 1 and hi any integer.             *)
(***************************************************************************)
EXTENDS Integers, Sequences, FiniteSets, TLC

VARIABLES
    sha256_4,   \* content -> first 4 bytes of hashlib.sha256(content).digest()
    exeFiles,   \* launch scripts on disk: path -> content, "missing" or "unreadable"
    session,    \* SESSION_ID of the running process
    runs,       \* generate_exeid calls made so far (history)
    live,       \* the shortcuts.vdf file: [exists, content, mtime]
    backups,    \* shortcuts_backups/shortcuts_<token>.vdf: token -> [content, mtime]
    grid,       \* files of the artwork directory (userdata/<id>/config/grid)
    clock,      \* time of the last backup_and_save call
    callLog,    \* backup_and_save calls made so far (history)
    umuSel,     \* selected row of umu_tree_view, or NoRow
    steamSel,   \* selected row of steam_tree_view, or NoRow
    scriptName, \* text of launch_script_name_input
    selection_clearing, \* MainWindow.selection_clearing
    uiLog,      \* the user's last action on the widgets and the slot steps it ran (history)
    adds,       \* add_game_to_steam calls made so far (history)
    codec       \* a buffer on its way through the codec: [stage, tree, bytes, decoded]

exeVars == <<sha256_4, exeFiles, runs>>
fsVars == <<live, backups, grid>>
guiVars == <<umuSel, steamSel, scriptName, selection_clearing, uiLog>>
vars == <<sha256_4, exeFiles, session, runs, live, backups, grid, clock, callLog,
          umuSel, steamSel, scriptName, selection_clearing, uiLog, adds, codec>>

(***************************************************************************)
(* Bounds of the model.                                                    *)
(***************************************************************************)
MaxRuns == 2
\* backup_and_save calls in SpecRotation
MaxCalls == 7
\* backup_and_save calls in SpecBackup
MaxCallsFaulty == 3
\* backup files present before the first call in SpecBackup
MaxPre == 6
\* add_game_to_steam calls in Spec
MaxAdds == 1
\* entries of a collection passed through the codec
MaxEntries == 2
\* SESSION_ID up to which a slot of Spec may raise
MaxSessions == 2

(***************************************************************************)
(* Python int arithmetic on limbs.                                         *)
(***************************************************************************)
Byte == 16 * 16
Limb == Byte * Byte
HalfLimb == Limb \div 2

PyInt(hi, lo) == [kind |-> "int", hi |-> hi, lo |-> lo]
PyNone == [kind |-> "None", hi |-> 0, lo |-> 0]

IsInt(v) == v.kind = "int"
IsZero(v) == IsInt(v) /\ v.hi = 0 /\ v.lo = 0
IsNegative(v) == IsInt(v) /\ v.hi < 0

\* -v
PyNeg(v) ==
    IF v.lo = 0 THEN PyInt(-v.hi, 0) ELSE PyInt(-v.hi - 1, Limb - v.lo)

\* v - 1
PySub1(v) ==
    IF v.lo = 0 THEN PyInt(v.hi - 1, Limb - 1) ELSE PyInt(v.hi, v.lo - 1)

\* v & 0x7FFFFFFF (two's complement of unbounded width: the low 31 bits)
And7FFFFFFF(v) == PyInt(v.hi % HalfLimb, v.lo)

\* v & 0xFFFFFFFF (the low 32 bits)
AndFFFFFFFF(v) == PyInt(v.hi % Limb, v.lo)

\* v | (1 << 31)
OrBit31(v) ==
    IF (v.hi \div HalfLimb) % 2 = 1 THEN v ELSE PyInt(v.hi + HalfLimb, v.lo)

\* int.from_bytes(b, byteorder='little') for 4 bytes
FromBytesLittle(b) == PyInt(b[4] * Byte + b[3], b[2] * Byte + b[1])

\* struct.pack("<i", v): the 4 bytes, or struct.error when v is outside
\* -2^31 .. 2^31 - 1
StructPackI(v) ==
    IF v.hi >= -HalfLimb /\ v.hi < HalfLimb
    THEN [ok |-> TRUE,
          bytes |-> <<v.lo % Byte, v.lo \div Byte,
                      (v.hi % Limb) % Byte, (v.hi % Limb) \div Byte>>]
    ELSE [ok |-> FALSE, bytes |-> <<>>]

\* struct.unpack("<i", b)[0]
StructUnpackI(b) ==
    LET uhi == b[4] * Byte + b[3]
    IN  PyInt(IF uhi >= HalfLimb THEN uhi - Limb ELSE uhi, b[2] * Byte + b[1])

(***************************************************************************)
(* Strings are sequences of pieces; the strings that are parsed or         *)
(* produced digit by digit (shortcut keys, identifiers) have one character *)
(* per piece.                                                              *)
(***************************************************************************)
Digits == <<"0", "1", "2", "3", "4", "5", "6", "7", "8", "9">>
IsDigit(c) == \E d \in 1..10 : Digits[d] = c
DigitValue(c) == (CHOOSE d \in 1..10 : Digits[d] = c) - 1

RECURSIVE NatStr(_)
NatStr(n) == IF n < 10 THEN <<Digits[n + 1]>>
             ELSE NatStr(n \div 10) \o <<Digits[(n % 10) + 1]>>
\* str(n) for a Python int that fits one machine word of the model
IntStr(n) == IF n < 0 THEN <<"-">> \o NatStr(-n) ELSE NatStr(n)

\* divmod(v, 10) for v >= 0 on limbs
PyDiv10(v) == PyInt(v.hi \div 10, (((v.hi % 10) * Limb) + v.lo) \div 10)
PyMod10(v) == (((v.hi % 10) * Limb) + v.lo) % 10
RECURSIVE PyNatStr(_)
PyNatStr(v) == IF v.hi = 0 /\ v.lo < 10 THEN <<Digits[v.lo + 1]>>
               ELSE PyNatStr(PyDiv10(v)) \o <<Digits[PyMod10(v) + 1]>>
\* f"{v}" for a Python int on limbs
PyStr(v) == IF v.hi < 0 THEN <<"-">> \o PyNatStr(PyNeg(v)) ELSE PyNatStr(v)

RECURSIVE StripLeft(_)
StripLeft(cs) == IF cs # <<>> /\ Head(cs) = " " THEN StripLeft(Tail(cs)) ELSE cs
RECURSIVE StripRight(_)
StripRight(cs) ==
    IF cs # <<>> /\ cs[Len(cs)] = " " THEN StripRight(SubSeq(cs, 1, Len(cs) - 1)) ELSE cs

\* the digit part of an int literal: digits, with single underscores between
\* digits only
DigitsWellFormed(ds) ==
    /\ ds # <<>>
    /\ \A i \in 1..Len(ds) : IsDigit(ds[i]) \/ ds[i] = "_"
    /\ IsDigit(ds[1]) /\ IsDigit(ds[Len(ds)])
    /\ \A i \in 1..(Len(ds) - 1) : ~(ds[i] = "_" /\ ds[i + 1] = "_")
RECURSIVE DigitsValue(_, _)
DigitsValue(ds, acc) ==
    IF ds = <<>> THEN acc
    ELSE IF Head(ds) = "_" THEN DigitsValue(Tail(ds), acc)
    ELSE DigitsValue(Tail(ds), acc * 10 + DigitValue(Head(ds)))

\* int(s): [ok |-> TRUE, value] or ValueError (ok FALSE)
PyParseInt(s) ==
    LET t == StripRight(StripLeft(s))
        signed == t # <<>> /\ Head(t) \in {"+", "-"}
        ds == IF signed THEN Tail(t) ELSE t
    IN  IF DigitsWellFormed(ds)
        THEN [ok |-> TRUE,
              value |-> IF signed /\ Head(t) = "-" THEN -DigitsValue(ds, 0)
                        ELSE DigitsValue(ds, 0)]
        ELSE [ok |-> FALSE, value |-> 0]

(***************************************************************************)
(* Sample data of the model.                                               *)
(***************************************************************************)
\* byte contents of launch scripts
Contents == {"c1", "c2"}
\* rows of the two result views: TITLE, STORE, UMU_ID and (UMU view) CODENAME
NoRow == [title |-> <<>>, store |-> <<>>, umu_id |-> <<>>, codename |-> <<>>]
UmuRows == { [title |-> <<"Game A">>, store |-> <<"gog">>,
              umu_id |-> <<"umu-", "7">>, codename |-> <<"gamea">>] }
SteamRows == { [title |-> <<"Game B">>, store |-> <<"Steam">>,
                umu_id |-> <<"umu-", "4", "0">>, codename |-> <<>>] }
\* line 1225: umu_id + ".sh"
ScriptOf(row) == row.umu_id \o <<".sh">>
\* launch script names (files of scriptsDir)
ExePaths == {ScriptOf(row) : row \in UmuRows \cup SteamRows}
\* first 4 digest bytes, at the corners of the 32-bit range:
\* 0, 1, 0x00010000, 0x7FFFFFFF, 0x80000000, 0x80000001, 0xFFFFFFFF
DigestSamples ==
    { <<0, 0, 0, 0>>, <<1, 0, 0, 0>>, <<0, 0, 1, 0>>, <<255, 255, 255, 127>>,
      <<0, 0, 0, 128>>, <<1, 0, 0, 128>>, <<255, 255, 255, 255>> }
\* results of random.getrandbits(31): 0, 2^31 - 1
RandSamples == { PyInt(0, 0), PyInt(HalfLimb - 1, Limb - 1) }
\* session tokens (uuid4 strings) of the processes that call generate_exeid
SessionSamples == {1, 2}

FileStates == Contents \cup {"missing", "unreadable"}
Readable(st) == st \in Contents

(***************************************************************************)
(* generate_exeid(exe_path), given the state st of the file at exe_path    *)
(* and the value r that random.getrandbits(31) would return.               *)
(* outcome "returned": value is the return value; "raised": struct.error.  *)
(***************************************************************************)
\* line 925: -(hash_int & 0x7FFFFFFF) - 1
NegativeIdNoOffset(hash_int) == PyNeg(And7FFFFFFF(hash_int))
NegativeIdUnmasked(hash_int) == PySub1(PyNeg(hash_int))
NegativeId(hash_int) == PySub1(PyNeg(And7FFFFFFF(hash_int)))

\* line 928: random.getrandbits(31) | (1<<31)
DegenerateId(r) == OrBit31(r)

\* lines 927-938, from the value computed at line 925
ExeIdTail(computed, r) ==
    LET degenerate == IsZero(computed)
        negative_id == IF degenerate THEN DegenerateId(r) ELSE computed
        packed_id == StructPackI(negative_id)
    IN  IF packed_id.ok
        THEN [outcome |-> "returned", value |-> negative_id,
              computed |-> computed, usedRandom |-> degenerate]
        ELSE [outcome |-> "raised", value |-> PyNone,
              computed |-> computed, usedRandom |-> degenerate]

generate_exeid_random(path, st, r) ==
    IF ~Readable(st)
    THEN [outcome |-> "returned", value |-> PyNone,
          computed |-> PyNone, usedRandom |-> FALSE]
    ELSE ExeIdTail(NegativeId(r), r)
generate_exeid(path, st, r) ==
    IF ~Readable(st)
    THEN [outcome |-> "returned", value |-> PyNone,
          computed |-> PyNone, usedRandom |-> FALSE]
    ELSE ExeIdTail(NegativeId(FromBytesLittle(sha256_4[st])), r)

\* signed_to_unsigned(signed_int); TypeError on None
signed_to_unsigned(signed_int) ==
    IF IsInt(signed_int)
    THEN [outcome |-> "returned", value |-> AndFFFFFFFF(signed_int)]
    ELSE [outcome |-> "raised", value |-> PyNone]

(***************************************************************************)
(* Files.  A file's content is [kind, v]: kind "data" with v the encoded   *)
(* collection, or kind "truncated" for a file cut short by a failed write. *)
(***************************************************************************)
Data(v) == [kind |-> "data", v |-> v]
Truncated == [kind |-> "truncated", v |-> <<>>]
NoFile == [exists |-> FALSE, content |-> Truncated, mtime |-> 0]
File(content, mtime) == [exists |-> TRUE, content |-> content, mtime |-> mtime]
\* no buffer is in the codec
NoCodec == [stage |-> "idle", tree |-> <<>>, bytes |-> <<>>, decoded |-> <<>>]
\* "" as icon_path
NoPath == [id |-> PyNone, suffix |-> ""]

(***************************************************************************)
(* backup_and_save                                                         *)
(***************************************************************************)
max_backups == 5

\* what can fail in a call: os.makedirs, os.remove, shutil.copy2 before it
\* creates the backup or after it wrote part of it, open(.., "wb"), and
\* vdf.binary_dump after open truncated the file
Faults == {"none", "makedirs", "remove", "copy", "copy_partial", "open", "dump"}

Newest(bk, S) == {f \in S : \A g \in S : bk[f].mtime >= bk[g].mtime}
Oldest(bk, S) == {f \in S : \A g \in S : bk[f].mtime <= bk[g].mtime}

\* line 817: sorted(glob.glob(...), key=os.path.getmtime, reverse=True).
\* glob lists the directory in no particular order and the sort is stable,
\* so files of equal mtime come in any order.
RECURSIVE SortedAscending(_, _)
SortedAscending(bk, S) ==
    IF S = {} THEN {<<>>}
    ELSE UNION { { <<f>> \o t : t \in SortedAscending(bk, S \ {f}) } : f \in Oldest(bk, S) }
RECURSIVE SortedBackups(_, _)
SortedBackups(bk, S) ==
    IF S = {} THEN {<<>>}
    ELSE UNION { { <<f>> \o t : t \in SortedBackups(bk, S \ {f}) } : f \in Newest(bk, S) }

\* lines 818-820: while len(backup_files) >= max_backups: remove the last
RECURSIVE RotateLoopKeepCap(_)
RotateLoopKeepCap(backup_files) ==
    IF Len(backup_files) > max_backups
    THEN RotateLoopKeepCap(SubSeq(backup_files, 1, Len(backup_files) - 1))
    ELSE backup_files
\* the loop popping the head of the list: the newest go first
RECURSIVE RotateLoopDropNewest(_)
RotateLoopDropNewest(backup_files) ==
    IF Len(backup_files) >= max_backups
    THEN RotateLoopDropNewest(Tail(backup_files))
    ELSE backup_files
RECURSIVE RotateLoop(_)
RotateLoop(backup_files) ==
    IF Len(backup_files) >= max_backups
    THEN RotateLoop(SubSeq(backup_files, 1, Len(backup_files) - 1))
    ELSE backup_files

Range(seq) == {seq[i] : i \in 1..Len(seq)}
Restrict(f, S) == [x \in S |-> f[x]]
Extend(f, k, val) == [x \in DOMAIN f \cup {k} |-> IF x = k THEN val ELSE f[x]]

\* one I/O step of a call, in the order the call makes them
Ev(op, ok) == [op |-> op, ok |-> ok]

\* the except branch without its return value: the call ends like a success
SaveFailedReturnsTrue(lv, bk, gr, icon_path, removed, copied, events) ==
    [live |-> lv, backups |-> bk,
     grid |-> IF icon_path # NoPath THEN gr \ {icon_path} ELSE gr,
     result |-> "True", removed |-> removed, copied |-> copied, events |-> events]

\* lines 837-852: the except branch deletes the icon file and returns False
SaveFailed(lv, bk, gr, icon_path, removed, copied, events) ==
    [live |-> lv, backups |-> bk,
     grid |-> IF icon_path # NoPath THEN gr \ {icon_path} ELSE gr,
     result |-> "False", removed |-> removed, copied |-> copied,
     events |-> IF icon_path # NoPath /\ icon_path \in gr
                THEN events \o <<Ev("remove_icon", TRUE)>> ELSE events]

\* lines 824-830: the tests and the copy made before the live file is opened
BackupStep(lv, bk, sid, fault) ==
    IF sid \in DOMAIN bk THEN <<Ev("exists_backup", TRUE)>>
    ELSE IF lv.exists
         THEN <<Ev("exists_backup", FALSE), Ev("exists_live", TRUE),
                Ev("copy", fault \notin {"copy", "copy_partial"})>>
    ELSE <<Ev("exists_backup", FALSE), Ev("exists_live", FALSE)>>

\* Save without the test of line 824: the live file is copied on every call
SaveAlwaysCopy(lv, bk, gr, sid, shortcuts, icon_path, now, fault, removed, events) ==
    LET copies == lv.exists
        copyFails == copies /\ fault \in {"copy", "copy_partial"}
        bk1 == IF ~copies \/ fault = "copy" THEN bk
               ELSE IF fault = "copy_partial" THEN Extend(bk, sid, [content |-> Truncated, mtime |-> now])
               ELSE Extend(bk, sid, [content |-> lv.content, mtime |-> lv.mtime])
        ev1 == events \o BackupStep(lv, <<>>, sid, fault)
    IN  IF copyFails THEN SaveFailed(lv, bk1, gr, icon_path, removed, FALSE, ev1)
        ELSE IF fault = "open"
             THEN SaveFailed(lv, bk1, gr, icon_path, removed, copies,
                             ev1 \o <<Ev("open", FALSE)>>)
        ELSE IF fault = "dump"
             THEN SaveFailed(File(Truncated, now), bk1, gr, icon_path, removed, copies,
                             ev1 \o <<Ev("open", TRUE), Ev("dump", FALSE)>>)
        ELSE [live |-> File(Data(shortcuts), now), backups |-> bk1, grid |-> gr,
              result |-> "True", removed |-> removed, copied |-> copies,
              events |-> ev1 \o <<Ev("open", TRUE), Ev("dump", TRUE)>>]

\* Save with lines 832-833 moved before lines 824-830: the live file is
\* written first and copied afterwards
SaveOverwriteFirst(lv, bk, gr, sid, shortcuts, icon_path, now, fault, removed, events) ==
    LET written == File(Data(shortcuts), now)
        copies == sid \notin DOMAIN bk
        ev1 == events \o <<Ev("open", fault # "open")>>
        ev2 == ev1 \o <<Ev("dump", fault # "dump")>>
    IN  IF fault = "open" THEN SaveFailed(lv, bk, gr, icon_path, removed, FALSE, ev1)
        ELSE IF fault = "dump"
             THEN SaveFailed(File(Truncated, now), bk, gr, icon_path, removed, FALSE, ev2)
        ELSE IF copies /\ fault \in {"copy", "copy_partial"}
             THEN SaveFailed(written, bk, gr, icon_path, removed, FALSE,
                             ev2 \o BackupStep(written, bk, sid, fault))
        ELSE [live |-> written,
              backups |-> IF copies
                          THEN Extend(bk, sid, [content |-> written.content, mtime |-> now])
                          ELSE bk,
              grid |-> gr, result |-> "True", removed |-> removed, copied |-> copies,
              events |-> ev2 \o BackupStep(written, bk, sid, fault)]

\* lines 822-835, after the rotation
Save(lv, bk, gr, sid, shortcuts, icon_path, now, fault, removed, events) ==
    LET copies == sid \notin DOMAIN bk /\ lv.exists
        copyFails == copies /\ fault \in {"copy", "copy_partial"}
        \* shutil.copy2 keeps the source's modification time
        bk1 == IF ~copies \/ fault = "copy" THEN bk
               ELSE IF fault = "copy_partial"
                    THEN Extend(bk, sid, [content |-> Truncated, mtime |-> now])
               ELSE Extend(bk, sid, [content |-> lv.content, mtime |-> lv.mtime])
        ev1 == events \o BackupStep(lv, bk, sid, fault)
    IN  IF copyFails THEN SaveFailed(lv, bk1, gr, icon_path, removed, FALSE, ev1)
        ELSE IF fault = "open"
             THEN SaveFailed(lv, bk1, gr, icon_path, removed, copies,
                             ev1 \o <<Ev("open", FALSE)>>)
        ELSE IF fault = "dump"
             THEN SaveFailed(File(Truncated, now), bk1, gr, icon_path, removed, copies,
                             ev1 \o <<Ev("open", TRUE), Ev("dump", FALSE)>>)
        ELSE [live |-> File(Data(shortcuts), now), backups |-> bk1, grid |-> gr,
              result |-> "True", removed |-> removed, copied |-> copies,
              events |-> ev1 \o <<Ev("open", TRUE), Ev("dump", TRUE)>>]

\* backup_and_save(shortcuts_path, shortcuts, .., icon_path, ..) called at time
\* now under SESSION_ID sid; backup_files is the sorted list of line 817.
\* result "True"/"False": the return value; "raised": an exception left the call.
backup_and_save(lv, bk, gr, sid, shortcuts, icon_path, now, fault, backup_files) ==
    LET kept == RotateLoop(backup_files)
        removed == Range(backup_files) \ Range(kept)
        removes == [i \in 1..(Len(backup_files) - Len(kept)) |-> Ev("remove", TRUE)]
    IN  IF fault = "makedirs"
        THEN [live |-> lv, backups |-> bk, grid |-> gr,
              result |-> "raised", removed |-> {}, copied |-> FALSE,
              events |-> <<Ev("makedirs", FALSE)>>]
        ELSE IF fault = "remove" /\ removed # {}
        THEN [live |-> lv, backups |-> bk, grid |-> gr,
              result |-> "raised", removed |-> {}, copied |-> FALSE,
              events |-> <<Ev("makedirs", TRUE), Ev("glob", TRUE), Ev("remove", FALSE)>>]
        ELSE Save(lv, Restrict(bk, Range(kept)), gr, sid, shortcuts, icon_path,
                  now, fault, removed,
                  <<Ev("makedirs", TRUE), Ev("glob", TRUE)>> \o removes)

\* the faults that make a difference in this call
FaultApplies(lv, bk, sid, fault, backup_files) ==
    LET kept == RotateLoop(backup_files)
    IN  CASE fault = "remove" -> Len(kept) < Len(backup_files)
          [] fault \in {"copy", "copy_partial"} -> sid \notin Range(kept) /\ lv.exists
          [] OTHER -> TRUE

(***************************************************************************)
(* Specifications SpecRotation and SpecBackup: sequences of                *)
(* backup_and_save calls, each at a later time than the one before, with   *)
(* process restarts in between.  In SpecRotation the backup directory      *)
(* starts empty, the live file exists and no I/O fails; in SpecBackup      *)
(* any number of backups, older or newer than the live file, may be there  *)
(* beforehand, the live file may be absent and every I/O step may fail.    *)
(***************************************************************************)
\* tokens of the backups left by earlier processes
PreTokens(n) == {-i : i \in 1..n}

InitRotation ==
    /\ sha256_4 = [c \in Contents |-> <<0, 0, 0, 0>>]
    /\ exeFiles = [p \in ExePaths |-> "missing"]
    /\ runs = {}
    /\ session = 1
    /\ live = File(Data(<<0>>), 0)
    /\ backups = <<>>
    /\ grid = {}
    /\ clock = MaxPre + 1
    /\ callLog = <<>>
    /\ umuSel = NoRow /\ steamSel = NoRow /\ scriptName = <<>>
    /\ selection_clearing = FALSE /\ uiLog = <<>>
    /\ adds = <<>>
    /\ codec = NoCodec

\* The live file was last written at time 0.  Of the n backups present, the
\* first `newer` carry a later modification time than the live file (the live
\* file has since been replaced by an older copy), the others an earlier one.
InitBackup ==
    /\ sha256_4 = [c \in Contents |-> <<0, 0, 0, 0>>]
    /\ exeFiles = [p \in ExePaths |-> "missing"]
    /\ runs = {}
    /\ session = 1
    /\ live \in {NoFile, File(Data(<<0>>), 0)}
    /\ \E n \in 0..MaxPre, newer \in 0..MaxPre :
          /\ newer <= n
          /\ backups = [t \in PreTokens(n) |->
                           [content |-> Data(<<t>>),
                            mtime |-> IF -t <= newer THEN -t ELSE t]]
    /\ grid = {}
    /\ clock = MaxPre + 1
    /\ callLog = <<>>
    /\ umuSel = NoRow /\ steamSel = NoRow /\ scriptName = <<>>
    /\ selection_clearing = FALSE /\ uiLog = <<>>
    /\ adds = <<>>
    /\ codec = NoCodec

\* a new process: initialize_session draws a fresh uuid4
Restart ==
    /\ \E i \in 1..Len(callLog) : callLog[i].token = session
    /\ session' = session + 1
    /\ UNCHANGED <<exeVars, fsVars, clock, callLog, guiVars, adds, codec>>

Call(fault, backup_files) ==
    LET now == clock + 1
        r == backup_and_save(live, backups, grid, session, <<now>>, NoPath,
                             now, fault, backup_files)
    IN  /\ FaultApplies(live, backups, session, fault, backup_files)
        /\ live' = r.live
        /\ backups' = r.backups
        /\ grid' = r.grid
        /\ clock' = now
        /\ callLog' = Append(callLog, [token |-> session, result |-> r.result,
                                       removed |-> r.removed, copied |-> r.copied,
                                       before |-> live,
                                       events |-> r.events])
        /\ UNCHANGED <<exeVars, session, guiVars, adds, codec>>

CallOk ==
    /\ Len(callLog) < MaxCalls
    /\ \E backup_files \in SortedBackups(backups, DOMAIN backups) :
          Call("none", backup_files)

CallFaulty ==
    /\ Len(callLog) < MaxCallsFaulty
    /\ \E fault \in Faults, backup_files \in SortedBackups(backups, DOMAIN backups) :
          Call(fault, backup_files)

NextRotation == Restart \/ CallOk
SpecRotation == InitRotation /\ [][NextRotation]_vars

NextBackup == Restart \/ CallFaulty
SpecBackup == InitBackup /\ [][NextBackup]_vars

(***************************************************************************)
(* The selection handlers of MainWindow.  g is the state of the widgets    *)
(* while slots run: [umu, steam, name, clearing, log, raised]; log         *)
(* collects the steps of on_tree_view_selection_changed, raised is set     *)
(* when an exception leaves a slot.                                        *)
(***************************************************************************)
Str(s) == [kind |-> "str", s |-> s]

\* an entry of uiLog: the user's action, or a step of a slot, with
\* selection_clearing as that step leaves it
Entry(slot, view, what, flag) == [slot |-> slot, view |-> view, what |-> what, flag |-> flag]
Logged(g, what, view) ==
    [g EXCEPT !.log = Append(@, Entry("on_tree_view_selection_changed", view, what, g.clearing))]

\* the calls of the handler's body that an exception can leave
RaisePoints == {"none", "clearSelection", "update_launch_script_name"}

\* update_launch_script_name reading the UMU view whatever its argument
update_launch_script_name_umu(g, view) ==
    [g EXCEPT !.name = IF g.umu # NoRow THEN ScriptOf(g.umu) ELSE <<>>]
\* update_launch_script_name(tree_view_type)
update_launch_script_name(g, view) ==
    LET sel == IF view = "umu" THEN g.umu ELSE g.steam
    IN  [g EXCEPT !.name = IF sel # NoRow THEN ScriptOf(sel) ELSE <<>>]

\* the test of line 1294 never true
GuardNeverSet(g) == FALSE
\* line 1294: if self.selection_clearing
GuardSet(g) == g.clearing

RECURSIVE selectionChanged(_, _, _)

\* other_tree_view.clearSelection(): emits selectionChanged when a row was
\* selected there
clearSelection(g, view) ==
    LET had == (IF view = "umu" THEN g.umu ELSE g.steam) # NoRow
        g1 == IF view = "umu" THEN [g EXCEPT !.umu = NoRow]
              ELSE [g EXCEPT !.steam = NoRow]
    IN  IF had THEN selectionChanged(g1, view, "none") ELSE g1

\* lines 1305-1306: finally, selection_clearing = False
Finally(g, what, view) == Logged([g EXCEPT !.clearing = FALSE], what, view)

\* on_tree_view_selection_changed(source_tree_view, ..); raises names the
\* call of the body that raises, if any
on_tree_view_selection_changed(g, view, raises) ==
    IF GuardSet(g) THEN Logged(g, "return", view)
    ELSE LET other == IF view = "umu" THEN "steam" ELSE "umu"
             g0 == Logged([g EXCEPT !.clearing = TRUE], "enter", view)
         IN  IF raises = "clearSelection"
             THEN [Finally(g0, "raise", view) EXCEPT !.raised = TRUE]
             ELSE IF raises = "update_launch_script_name"
                  THEN [Finally(clearSelection(g0, other), "raise", view)
                           EXCEPT !.raised = TRUE]
             ELSE Finally(update_launch_script_name(clearSelection(g0, other), view),
                          "exit", view)

\* selectionChanged of a view: the slots connected at lines 1138-1143 and
\* 1186-1187, in connection order; an exception leaving the first ends the
\* process
selectionChanged(g, view, raises) ==
    LET g1 == on_tree_view_selection_changed(g, view, raises)
    IN  IF g1.raised THEN g1 ELSE update_launch_script_name(g1, view)

(***************************************************************************)
(* add_game_to_steam                                                       *)
(***************************************************************************)
scripts_dir == <<"scripts">>
artwork_path == <<"grid">>
PathJoin(dir, name) == dir \o <<"/">> \o name

\* validate_umu_id(umu_id): (is_int_appid, app_id)
validate_umu_id(umu_id) ==
    IF Len(umu_id) >= 2 /\ Head(umu_id) = "umu-"
    THEN LET x_part == Tail(umu_id)
         IN  [is_int |-> /\ x_part[1] # "0"
                         /\ \A i \in 1..Len(x_part) : IsDigit(x_part[i]),
              x_part |-> x_part]
    ELSE [is_int |-> FALSE, x_part |-> <<>>]

\* lines 742-749: the highest key that parses as an integer, from -1
RECURSIVE HighestIdLoop(_, _)
HighestIdLoop(entries, highest_id) ==
    IF entries = <<>> THEN highest_id
    ELSE LET p == PyParseInt(Head(entries).key)
         IN  HighestIdLoop(Tail(entries),
                           IF p.ok /\ p.value > highest_id THEN p.value ELSE highest_id)
HighestIdCount(entries) == Len(entries) - 1
\* the running maximum taken one too low
HighestIdOffByOne(entries) == HighestIdLoop(entries, -1) - 1
HighestId(entries) == HighestIdLoop(entries, -1)

\* shortcuts["shortcuts"][key] = rec on an insertion-ordered dict
DictSet(entries, key, rec) ==
    IF \E i \in 1..Len(entries) : entries[i].key = key
    THEN [i \in 1..Len(entries) |->
             IF entries[i].key = key THEN [key |-> key, rec |-> rec] ELSE entries[i]]
    ELSE Append(entries, [key |-> key, rec |-> rec])

\* lines 775-778: get_icon_from_steam returns a path or None; None is
\* replaced by ""
IconKept(ret) == ret
IconOrEmpty(ret) == IF ret = PyNone THEN Str(<<>>) ELSE ret

\* lines 780-794; icon_path is the value left by lines 775-778
RecordUnsignedId(exe_id, game_title, exe_path, icon_path) ==
    << <<"appid", AndFFFFFFFF(exe_id)>>, <<"AppName", Str(game_title)>>,
       <<"Exe", Str(<<"\"">> \o exe_path \o <<"\"">>)>>,
       <<"StartDir", Str(scripts_dir)>>, <<"icon", icon_path>>,
       <<"ShortcutPath", Str(<<>>)>>, <<"LaunchOptions", Str(<<>>)>>,
       <<"IsHidden", Str(<<"0">>)>>, <<"AllowDesktopConfig", Str(<<"1">>)>>,
       <<"AllowOverlay", Str(<<"1">>)>>, <<"InGame", Str(<<"0">>)>>,
       <<"LastPlayTime", Str(<<"0">>)>>, <<"FlatpakAppID", Str(<<>>)>> >>
\* the record with Exe holding the bare path
RecordExeUnquoted(exe_id, game_title, exe_path, icon_path) ==
    << <<"appid", exe_id>>, <<"AppName", Str(game_title)>>,
       <<"Exe", Str(exe_path)>>,
       <<"StartDir", Str(scripts_dir)>>, <<"icon", icon_path>>,
       <<"ShortcutPath", Str(<<>>)>>, <<"LaunchOptions", Str(<<>>)>>,
       <<"IsHidden", Str(<<"0">>)>>, <<"AllowDesktopConfig", Str(<<"1">>)>>,
       <<"AllowOverlay", Str(<<"1">>)>>, <<"InGame", Str(<<"0">>)>>,
       <<"LastPlayTime", Str(<<"0">>)>>, <<"FlatpakAppID", Str(<<>>)>> >>
Record(exe_id, game_title, exe_path, icon_path) ==
    << <<"appid", exe_id>>, <<"AppName", Str(game_title)>>,
       <<"Exe", Str(<<"\"">> \o exe_path \o <<"\"">>)>>,
       <<"StartDir", Str(scripts_dir)>>, <<"icon", icon_path>>,
       <<"ShortcutPath", Str(<<>>)>>, <<"LaunchOptions", Str(<<>>)>>,
       <<"IsHidden", Str(<<"0">>)>>, <<"AllowDesktopConfig", Str(<<"1">>)>>,
       <<"AllowOverlay", Str(<<"1">>)>>, <<"InGame", Str(<<"0">>)>>,
       <<"LastPlayTime", Str(<<"0">>)>>, <<"FlatpakAppID", Str(<<>>)>> >>

\* file names of get_icon_from_steam (line 1063) and get_artwork_from_steam
\* (lines 1015-1020)
IconFile(steam_file_id) == PathJoin(artwork_path, PyStr(steam_file_id) \o <<"_icon.ico">>)
ArtworkFiles(steam_file_id) ==
    { PathJoin(artwork_path, PyStr(steam_file_id) \o <<suffix>>) :
        suffix \in {".jpg", "p.jpg", "_logo.png", "_hero.jpg"} }

\* what the environment decides in one add-operation
\*   steam, user : get_steam_path / get_steam_user_id find something
\*   load        : "none", or "oserror" when open(shortcuts_path) fails
\*   decode      : what vdf.binary_load makes of a file cut short: it raises
\*                 ("error") or returns a tree without "shortcuts" ("nokey")
\*   rand        : what random.getrandbits(31) would return
\*   icon        : get_icon_from_steam returns None ("none"), saves the icon
\*                 ("saved") or lets an exception escape ("raised")
\*   fault, backup_files : as in backup_and_save
\*   art         : get_artwork_from_steam can create its files
Envs(lv, bk) ==
    [steam : {TRUE}, user : {TRUE}, load : {"none"},
     decode : IF lv.exists /\ lv.content.kind # "data" THEN {"error", "nokey"}
              ELSE {"error"},
     rand : RandSamples,
     icon : {"none", "saved", "raised"}, fault : Faults,
     backup_files : SortedBackups(bk, DOMAIN bk), art : BOOLEAN]
    \cup
    [steam : BOOLEAN, user : BOOLEAN, load : {"none", "oserror"},
     decode : {"error"}, rand : {PyInt(0, 0)}, icon : {"none"}, fault : {"none"},
     backup_files : SortedBackups(bk, DOMAIN bk), art : {TRUE}]

\* the outcomes in which an exception leaves add_game_to_steam
Raised == {"raised_model_call", "raised_keyerror", "raised_pack",
           "raised_signed_to_unsigned", "raised_icon", "raised_save"}

Stopped(outcome, key, loaded, gr) ==
    [outcome |-> outcome, live |-> live, backups |-> backups, grid |-> gr,
     key |-> key, loaded |-> loaded, exe_id |-> PyNone, steam_file_id |-> PyNone,
     record |-> <<>>, shortcuts |-> <<>>, icon_path |-> <<>>, removed |-> {},
     copied |-> FALSE, events |-> <<>>, artwork |-> FALSE]

\* lines 768-802, with the collection loaded and the script found
AddTail(row, codename, entries, exe_path, e, now) ==
    LET new_shortcut_id == IntStr(HighestId(entries) + 1)
        gen == generate_exeid(exe_path, exeFiles[scriptName], e.rand)
        exe_id == gen.value
        stu == signed_to_unsigned(exe_id)
        steam_file_id == stu.value
        v == validate_umu_id(row.umu_id)
        icon_path == IF e.icon = "saved" THEN IconFile(steam_file_id) ELSE <<>>
        grid1 == IF e.icon = "saved" THEN grid \cup {icon_path} ELSE grid
        icon_ret == IF e.icon = "saved" THEN Str(icon_path) ELSE PyNone
        rec == Record(exe_id, row.title, exe_path, IconOrEmpty(icon_ret))
        shortcuts == DictSet(entries, new_shortcut_id, rec)
        r == backup_and_save(live, backups, grid1, session, shortcuts,
                             IF icon_path = <<>> THEN NoPath ELSE icon_path,
                             now, e.fault, e.backup_files)
        wantsArt == row.store = <<"Steam">> \/ (v.is_int /\ v.x_part # codename)
        grid2 == IF wantsArt /\ e.art THEN r.grid \cup ArtworkFiles(steam_file_id)
                 ELSE r.grid
    IN  IF gen.outcome = "raised" THEN Stopped("raised_pack", new_shortcut_id, entries, grid)
        ELSE IF stu.outcome = "raised"
             THEN Stopped("raised_signed_to_unsigned", new_shortcut_id, entries, grid)
        ELSE IF e.icon = "raised" THEN Stopped("raised_icon", new_shortcut_id, entries, grid)
        ELSE IF r.result = "raised"
             THEN [Stopped("raised_save", new_shortcut_id, entries, r.grid)
                      EXCEPT !.exe_id = exe_id, !.steam_file_id = steam_file_id,
                             !.record = rec, !.shortcuts = shortcuts,
                             !.icon_path = icon_path, !.events = r.events]
        ELSE [outcome |-> IF r.result = "True" THEN "saved" ELSE "save_failed",
              live |-> r.live, backups |-> r.backups, grid |-> grid2,
              key |-> new_shortcut_id, loaded |-> entries, exe_id |-> exe_id,
              steam_file_id |-> steam_file_id, record |-> rec,
              shortcuts |-> shortcuts, icon_path |-> icon_path,
              removed |-> r.removed, copied |-> r.copied, events |-> r.events,
              artwork |-> wantsArt]

\* lines 726-736: the collection under "shortcuts" after the load; a missing
\* file gives {"shortcuts": {}}
LoadedEntriesKeepOne(lv) ==
    IF lv.exists THEN lv.content.v ELSE <<[key |-> <<"0">>, rec |-> <<>>]>>
LoadedEntries(lv) == IF lv.exists THEN lv.content.v ELSE <<>>

\* lines 726-740: how the load ends.  "missing": FileNotFoundError, the
\* empty collection is substituted; "oserror": open fails otherwise;
\* "decode_error": vdf.binary_load raises; "no_shortcuts_key": it returns a
\* tree without "shortcuts"; "ok": it returns the collection
LoadOutcomeIgnoreErrors(lv, e) ==
    IF ~lv.exists THEN "missing"
    ELSE IF e.load = "oserror" THEN "missing"
    ELSE IF lv.content.kind = "data" THEN "ok"
    ELSE IF e.decode = "error" THEN "missing"
    ELSE "no_shortcuts_key"
LoadOutcome(lv, e) ==
    IF ~lv.exists THEN "missing"
    ELSE IF e.load = "oserror" THEN "oserror"
    ELSE IF lv.content.kind = "data" THEN "ok"
    ELSE IF e.decode = "error" THEN "decode_error"
    ELSE "no_shortcuts_key"

\* the body without the test of line 719
AddBodyAnyUser(row, codename, e, now) ==
    LET loaded == LoadOutcome(live, e)
        entries == LoadedEntries(live)
        exe_path == PathJoin(scripts_dir, scriptName)
    IN  IF ~e.steam THEN Stopped("no_steam", <<>>, <<>>, grid)
        ELSE IF loaded \in {"oserror", "decode_error"}
             THEN Stopped("load_failed", <<>>, <<>>, grid)
        ELSE IF loaded = "no_shortcuts_key" THEN Stopped("raised_keyerror", <<>>, <<>>, grid)
        ELSE IF scriptName = <<>> THEN Stopped("no_script_name", <<>>, entries, grid)
        ELSE IF scriptName \notin ExePaths \/ exeFiles[scriptName] = "missing"
             THEN Stopped("script_missing", <<>>, entries, grid)
        ELSE AddTail(row, codename, entries, exe_path, e, now)
\* lines 712-766
AddBody(row, codename, e, now) ==
    LET loaded == LoadOutcome(live, e)
        entries == LoadedEntries(live)
        exe_path == PathJoin(scripts_dir, scriptName)
    IN  IF ~e.steam THEN Stopped("no_steam", <<>>, <<>>, grid)
        ELSE IF ~e.user THEN Stopped("no_user", <<>>, <<>>, grid)
        ELSE IF loaded \in {"oserror", "decode_error"}
             THEN Stopped("load_failed", <<>>, <<>>, grid)
        ELSE IF loaded = "no_shortcuts_key" THEN Stopped("raised_keyerror", <<>>, <<>>, grid)
        ELSE IF scriptName = <<>> THEN Stopped("no_script_name", <<>>, entries, grid)
        ELSE IF scriptName \notin ExePaths \/ exeFiles[scriptName] = "missing"
             THEN Stopped("script_missing", <<>>, entries, grid)
        ELSE AddTail(row, codename, entries, exe_path, e, now)

\* line 690: model is already the model object, so model() raises TypeError
add_game_to_steam(umu, steam, e, now) ==
    IF umu # NoRow THEN Stopped("raised_model_call", <<>>, <<>>, grid)
    ELSE IF steam # NoRow THEN AddBody(steam, <<>>, e, now)
    ELSE Stopped("no_selection", <<>>, <<>>, grid)

(***************************************************************************)
(* Specification SpecExeId: launch scripts are written and removed, the    *)
(* process is restarted, and generate_exeid is called on them.             *)
(***************************************************************************)
InitExeId ==
    /\ sha256_4 \in [Contents -> DigestSamples]
    /\ exeFiles \in [ExePaths -> FileStates]
    /\ session = 1
    /\ runs = {}
    /\ live = NoFile
    /\ backups = <<>>
    /\ grid = {}
    /\ clock = 0
    /\ callLog = <<>>
    /\ umuSel = NoRow /\ steamSel = NoRow /\ scriptName = <<>>
    /\ selection_clearing = FALSE /\ uiLog = <<>>
    /\ adds = <<>>
    /\ codec = NoCodec

\* save_launch_script or the user writes, removes or protects a script
SetExeFile ==
    \E p \in ExePaths, st \in FileStates :
        /\ exeFiles' = [exeFiles EXCEPT ![p] = st]
        /\ UNCHANGED <<sha256_4, session, runs, fsVars, clock, callLog, guiVars, adds, codec>>

\* a new process: initialize_session draws a fresh uuid4
RestartExeId ==
    /\ session' \in SessionSamples \ {session}
    /\ UNCHANGED <<sha256_4, exeFiles, runs, fsVars, clock, callLog, guiVars, adds, codec>>

CallGenerateExeid ==
    \E p \in ExePaths, r \in RandSamples :
        /\ Cardinality(runs) < MaxRuns
        /\ runs' = runs \cup
               { [path |-> p, file |-> exeFiles[p], session |-> session,
                  res |-> generate_exeid(p, exeFiles[p], r),
                  sid |-> signed_to_unsigned(generate_exeid(p, exeFiles[p], r).value)] }
        /\ UNCHANGED <<sha256_4, exeFiles, session, fsVars, clock, callLog, guiVars, adds, codec>>

NextExeId == SetExeFile \/ RestartExeId \/ CallGenerateExeid

SpecExeId == InitExeId /\ [][NextExeId]_vars

(***************************************************************************)
(* Specification Spec: the user selects rows, edits the script name,       *)
(* saves launch scripts, restarts the program and presses "Add Game        *)
(* Script to Steam".                                                       *)
(***************************************************************************)
\* a record Steam or another tool wrote
ForeignRecord == << <<"appid", PyInt(-2, 5)>>, <<"AppName", Str(<<"Foreign">>)>> >>
Entries(keys) == [i \in 1..Len(keys) |-> [key |-> keys[i], rec |-> ForeignRecord]]
\* key lists of the shortcuts file found on disk
KeyLists ==
    { <<>>,
      << <<"0">>, <<"2">>, <<"5">> >>,
      << <<"x">>, <<"1">> >>,
      << <<"-", "5">> >>,
      << <<"1", "_", "0">>, <<"0", "0", "7">> >>,
      << <<" ", "4", " ">>, <<"+", "3">>, <<>> >> }
InitialLives ==
    {NoFile, File(Truncated, 0)} \cup {File(Data(Entries(keys)), 0) : keys \in KeyLists}

\* The SHA-256 of the two script contents: digests 0x00000000 and 0x7FFFFFFF.
\* The script of the UMU row holds "c1"; the script of the Steam row holds
\* "c1" or "c2", is missing or cannot be read.
InitAdd ==
    /\ sha256_4 = [c \in Contents |-> IF c = "c1" THEN <<0, 0, 0, 0>>
                                      ELSE <<255, 255, 255, 127>>]
    /\ \E st \in FileStates :
          exeFiles = [p \in ExePaths |-> IF p \in {ScriptOf(row) : row \in SteamRows}
                                        THEN st ELSE "c1"]
    /\ runs = {}
    /\ session = 1
    /\ live \in InitialLives
    /\ backups = <<>>
    /\ grid = {}
    /\ clock = 0
    /\ callLog = <<>>
    /\ umuSel = NoRow /\ steamSel = NoRow /\ scriptName = <<>>
    /\ selection_clearing = FALSE /\ uiLog = <<>>
    /\ adds = <<>>
    /\ codec = NoCodec

\* the widgets as the user's action finds them
Widgets(view, what) ==
    [umu |-> umuSel, steam |-> steamSel, name |-> scriptName,
     clearing |-> selection_clearing,
     log |-> <<Entry("user", view, what, selection_clearing)>>, raised |-> FALSE]

\* the widgets after slots ran.  An exception that left a slot ended the
\* process (PyQt aborts on an unhandled exception in a slot); the step then
\* includes the next start of the program: a new SESSION_ID and a fresh
\* MainWindow.
AfterSlots(g) ==
    /\ umuSel' = IF g.raised THEN NoRow ELSE g.umu
    /\ steamSel' = IF g.raised THEN NoRow ELSE g.steam
    /\ scriptName' = IF g.raised THEN <<>> ELSE g.name
    /\ selection_clearing' = IF g.raised THEN FALSE ELSE g.clearing
    /\ uiLog' = g.log
    /\ session' = IF g.raised THEN session + 1 ELSE session

\* the user selects a row of a view, or (row = NoRow) deselects the
\* selected one; the view emits selectionChanged
Select(view, row, raises) ==
    LET cur == IF view = "umu" THEN umuSel ELSE steamSel
        what == IF row = NoRow THEN "deselect" ELSE "select"
        g0 == IF view = "umu" THEN [Widgets(view, what) EXCEPT !.umu = row]
              ELSE [Widgets(view, what) EXCEPT !.steam = row]
    IN  /\ row # cur
        /\ AfterSlots(selectionChanged(g0, view, raises))
        /\ UNCHANGED <<exeVars, fsVars, clock, callLog, adds, codec>>

SelectRow ==
    /\ Len(adds) < MaxAdds
    /\ \E view \in {"umu", "steam"} :
          \E row \in (IF view = "umu" THEN UmuRows ELSE SteamRows) \cup {NoRow} :
              Select(view, row, "none")

\* the user clears launch_script_name_input
EditScriptName ==
    /\ Len(adds) < MaxAdds
    /\ scriptName # <<>>
    /\ scriptName' = <<>>
    /\ uiLog' = Widgets("name", "edit").log
    /\ UNCHANGED <<exeVars, session, fsVars, clock, callLog, umuSel, steamSel,
                   selection_clearing, adds, codec>>

\* show_modal_and_add_game: the button's slot.  An exception that leaves the
\* slot ends the process (PyQt aborts on an unhandled exception in a slot);
\* the step then includes the next start of the program: a new SESSION_ID
\* and a fresh MainWindow.
AddGameStep(e, now, a) ==
    LET called == a.outcome \in {"saved", "save_failed", "raised_save"}
        raised == a.outcome \in Raised
    IN  /\ live' = a.live
        /\ backups' = a.backups
        /\ grid' = a.grid
        /\ clock' = now
        /\ callLog' = IF called
                      THEN Append(callLog,
                              [token |-> session,
                               result |-> CASE a.outcome = "saved" -> "True"
                                            [] a.outcome = "save_failed" -> "False"
                                            [] OTHER -> "raised",
                               removed |-> a.removed, copied |-> a.copied,
                               before |-> live,
                               events |-> a.events])
                      ELSE callLog
        /\ adds' = Append(adds,
                      [view |-> IF umuSel # NoRow THEN "umu"
                                ELSE IF steamSel # NoRow THEN "steam" ELSE "none",
                       row |-> IF umuSel # NoRow THEN umuSel ELSE steamSel,
                       after_select |-> /\ uiLog # <<>>
                                        /\ uiLog[1].what = "select"
                                        /\ uiLog[Len(uiLog)].what # "raise",
                       script |-> scriptName,
                       file |-> IF scriptName \in ExePaths THEN exeFiles[scriptName]
                                ELSE "missing",
                       found |-> e.steam /\ e.user,
                       io_ok |-> /\ e.load = "none" /\ e.icon # "raised"
                                 /\ e.fault = "none"
                                 /\ (~live.exists \/ live.content.kind = "data"),
                       reached_load |-> a.outcome \notin {"raised_model_call", "no_selection",
                                                          "no_steam", "no_user"},
                       open_fails |-> e.load = "oserror",
                       decode_raises |-> e.decode = "error",
                       outcome |-> a.outcome, key |-> a.key, loaded |-> a.loaded,
                       exe_id |-> a.exe_id, steam_file_id |-> a.steam_file_id,
                       record |-> a.record, shortcuts |-> a.shortcuts,
                       icon_path |-> a.icon_path,
                       artwork |-> a.artwork])
        /\ session' = IF raised THEN session + 1 ELSE session
        /\ umuSel' = IF raised THEN NoRow ELSE umuSel
        /\ steamSel' = IF raised THEN NoRow ELSE steamSel
        /\ scriptName' = IF raised THEN <<>> ELSE scriptName
        /\ selection_clearing' = IF raised THEN FALSE ELSE selection_clearing
        /\ uiLog' = IF raised THEN <<>> ELSE uiLog
        /\ UNCHANGED <<exeVars, codec>>

AddGame ==
    \E e \in Envs(live, backups) :
        /\ Len(adds) < MaxAdds
        /\ FaultApplies(live, backups, session, e.fault, e.backup_files)
        /\ AddGameStep(e, clock + 1, add_game_to_steam(umuSel, steamSel, e, clock + 1))

Next == SelectRow \/ EditScriptName \/ Restart \/ AddGame
Spec == InitAdd /\ [][Next]_vars

(***************************************************************************)
(* Specification SpecGui: the widgets of MainWindow.  The user selects and *)
(* deselects rows, with a call of the handler's body raising or not, types *)
(* into the script name field, searches again and presses "Add Game        *)
(* Script to Steam"; no file operation fails.                              *)
(***************************************************************************)
\* no shortcuts file yet, or one without entries; the script of the UMU row
\* holds "c1", the script of the Steam row "c2"
InitGui ==
    /\ sha256_4 = [c \in Contents |-> IF c = "c1" THEN <<0, 0, 0, 0>>
                                      ELSE <<255, 255, 255, 127>>]
    /\ exeFiles = [p \in ExePaths |-> IF p \in {ScriptOf(row) : row \in SteamRows}
                                      THEN "c2" ELSE "c1"]
    /\ runs = {}
    /\ session = 1
    /\ live \in {NoFile, File(Data(<<>>), 0)}
    /\ backups = <<>>
    /\ grid = {}
    /\ clock = 0
    /\ callLog = <<>>
    /\ umuSel = NoRow /\ steamSel = NoRow /\ scriptName = <<>>
    /\ selection_clearing = FALSE /\ uiLog = <<>>
    /\ adds = <<>>
    /\ codec = NoCodec

SelectRowFaulty ==
    /\ Len(adds) < MaxAdds
    /\ \E view \in {"umu", "steam"}, raises \in RaisePoints :
          \E row \in (IF view = "umu" THEN UmuRows ELSE SteamRows) \cup {NoRow} :
              /\ raises # "none" => session < MaxSessions
              /\ Select(view, row, raises)

\* the user edits launch_script_name_input: clears it or types the name of
\* a launch script
TypeScriptName ==
    \E name \in ({<<>>} \cup ExePaths) \ {scriptName} :
        /\ Len(adds) < MaxAdds
        /\ scriptName' = name
        /\ uiLog' = Widgets("name", "edit").log
        /\ UNCHANGED <<exeVars, session, fsVars, clock, callLog, umuSel, steamSel,
                       selection_clearing, adds, codec>>

\* perform_search with a search term: update_tree_view calls model.clear()
\* on both models, which resets the selection of each view.  emits: whether
\* the view reports the lost selection through selectionChanged (Qt's
\* QItemSelectionModel.reset is documented not to emit)
PerformSearch ==
    \E emits \in BOOLEAN :
        LET g0 == Widgets("both", "search")
            gu == IF umuSel = NoRow THEN g0
                  ELSE IF emits THEN selectionChanged([g0 EXCEPT !.umu = NoRow], "umu", "none")
                  ELSE [g0 EXCEPT !.umu = NoRow]
            gs == IF steamSel = NoRow THEN gu
                  ELSE IF emits THEN selectionChanged([gu EXCEPT !.steam = NoRow], "steam", "none")
                  ELSE [gu EXCEPT !.steam = NoRow]
        IN  /\ Len(adds) < MaxAdds
            /\ umuSel # NoRow \/ steamSel # NoRow
            /\ AfterSlots(gs)
            /\ UNCHANGED <<exeVars, fsVars, clock, callLog, adds, codec>>

\* an add-operation in which nothing outside the program fails
EnvsOk(lv, bk) ==
    {e \in Envs(lv, bk) : /\ e.steam /\ e.user /\ e.load = "none" /\ e.fault = "none"
                          /\ e.icon # "raised" /\ e.art
                          /\ e.decode = "error" /\ e.rand = PyInt(0, 0)}
AddGameOk ==
    \E e \in EnvsOk(live, backups) :
        /\ Len(adds) < MaxAdds
        /\ AddGameStep(e, clock + 1, add_game_to_steam(umuSel, steamSel, e, clock + 1))

NextGui == SelectRowFaulty \/ TypeScriptName \/ PerformSearch \/ AddGameOk
SpecGui == InitGui /\ [][NextGui]_vars

(***************************************************************************)
(* The binary VDF codec (vdf.binary_dump, vdf.binary_load), after the      *)
(* format of section 4.1 of the specification: the library is not part of  *)
(* the source files.  A tree is a map [kind |-> "map", v |-> nodes], nodes *)
(* a sequence of [key, val], val a map, a string Str(s) or an integer      *)
(* PyInt(hi, lo).  A buffer is a sequence of bytes 0..255.                 *)
(***************************************************************************)
Map(nodes) == [kind |-> "map", v |-> nodes]
Node(key, val) == [key |-> key, val |-> val]
BinEnd == 8

\* the characters of the model's strings; a character's byte is its place
\* in Alphabet plus BinEnd, so that no character is a marker or the NUL
Alphabet ==
    Digits \o
    << "-", "+", "_", " ", "x", "a", "/", "\"", "umu-", ".sh", "scripts", "grid",
       "_icon.ico", "Game B", "Foreign", "shortcuts", "appid", "AppName", "Exe",
       "StartDir", "icon", "ShortcutPath", "LaunchOptions", "IsHidden",
       "AllowDesktopConfig", "AllowOverlay", "InGame", "LastPlayTime", "FlatpakAppID" >>
ByteOf(c) == BinEnd + (CHOOSE i \in 1..Len(Alphabet) : Alphabet[i] = c)
CharOf(b) == Alphabet[b - BinEnd]
IsCharByte(b) == b > BinEnd /\ b <= BinEnd + Len(Alphabet)

\* a string followed by its terminator 0x00
CStr(str) == [i \in 1..Len(str) |-> ByteOf(str[i])] \o <<0>>

\* encode: a map is 0x00 key 0x00 children 0x08, a string 0x01 key 0x00
\* value 0x00, an integer 0x02 key 0x00 and 4 bytes, little-endian
RECURSIVE EncodeNodes(_), EncodeNode(_)
EncodeNodes(nodes) ==
    IF nodes = <<>> THEN <<>> ELSE EncodeNode(Head(nodes)) \o EncodeNodes(Tail(nodes))
EncodeNodeIntBigEndian(n) ==
    CASE n.val.kind = "map" -> <<0>> \o CStr(n.key) \o EncodeNodes(n.val.v) \o <<BinEnd>>
      [] n.val.kind = "str" -> <<1>> \o CStr(n.key) \o CStr(n.val.s)
      [] n.val.kind = "int" ->
            LET b == StructPackI(n.val).bytes
            IN  <<2>> \o CStr(n.key) \o <<b[4], b[3], b[2], b[1]>>
EncodeNode(n) ==
    CASE n.val.kind = "map" -> <<0>> \o CStr(n.key) \o EncodeNodes(n.val.v) \o <<BinEnd>>
      [] n.val.kind = "str" -> <<1>> \o CStr(n.key) \o CStr(n.val.s)
      [] n.val.kind = "int" -> <<2>> \o CStr(n.key) \o StructPackI(n.val).bytes
\* the outermost map has no key and no marker: its children, then 0x08
binary_dumps(tree) == EncodeNodes(tree.v) \o <<BinEnd>>

Malformed == [ok |-> FALSE, nodes |-> <<>>, next |-> 0]
\* the string that starts at pos: up to the next 0x00, which must come
\* before the end of the buffer
ReadCStrFrom(b, pos, end) ==
    IF end = 0 \/ \E i \in pos..(end - 1) : ~IsCharByte(b[i])
    THEN [ok |-> FALSE, str |-> <<>>, next |-> 0]
    ELSE [ok |-> TRUE, str |-> [i \in 1..(end - pos) |-> CharOf(b[pos + i - 1])],
          next |-> end + 1]
ReadCStr(b, pos) ==
    LET ends == {i \in pos..Len(b) : b[i] = 0}
    IN  ReadCStrFrom(b, pos, IF ends = {} THEN 0
                             ELSE CHOOSE i \in ends : \A j \in ends : i <= j)

\* decode the children of a map from pos on, up to the map's 0x08
RECURSIVE ParseNodes(_, _, _), ParseValue(_, _, _, _), ParseRest(_, _, _, _)
ParseNodes(b, pos, acc) ==
    IF pos > Len(b) THEN Malformed
    ELSE IF b[pos] = BinEnd THEN [ok |-> TRUE, nodes |-> acc, next |-> pos + 1]
    ELSE IF b[pos] \in {0, 1, 2} THEN ParseValue(b, b[pos], acc, ReadCStr(b, pos + 1))
    ELSE Malformed
ParseValue(b, marker, acc, key) ==
    IF ~key.ok THEN Malformed
    ELSE IF marker = 0 THEN ParseRest(b, acc, key.str, ParseNodes(b, key.next, <<>>))
    ELSE IF marker = 1 THEN ParseRest(b, acc, key.str, ReadCStr(b, key.next))
    ELSE IF key.next + 3 > Len(b) THEN Malformed
    ELSE ParseNodes(b, key.next + 4,
                    Append(acc, Node(key.str,
                                     StructUnpackI(SubSeq(b, key.next, key.next + 3)))))
ParseRest(b, acc, key, val) ==
    IF ~val.ok THEN Malformed
    ELSE ParseNodes(b, val.next,
                    Append(acc, Node(key, IF "str" \in DOMAIN val THEN Str(val.str)
                                          ELSE Map(val.nodes))))
binary_loads(b) ==
    LET r == ParseNodes(b, 1, <<>>)
    IN  IF r.ok THEN [ok |-> TRUE, tree |-> Map(r.nodes)]
        ELSE [ok |-> FALSE, tree |-> Map(<<>>)]

\* the tree of a collection: {"shortcuts": {key: {field: leaf, ..}, ..}}
RecordNodes(rec) == [i \in 1..Len(rec) |-> Node(<<rec[i][1]>>, rec[i][2])]
TreeOf(entries) ==
    Map(<< Node(<<"shortcuts">>,
                Map([i \in 1..Len(entries) |->
                        Node(entries[i].key, Map(RecordNodes(entries[i].rec)))])) >>)

(***************************************************************************)
(* Specification SpecCodec: a collection is encoded as the save step does  *)
(* (line 833) and the bytes are decoded as the load step does (line 729).  *)
(***************************************************************************)
CodecKeys == { <<"0">>, <<"1", "0">>, <<"x">> }
\* records: the one add_game_to_steam builds, with and without an icon, a
\* foreign one, and small ones with the extreme integers and empty strings
CodecRecords ==
    { Record(PyInt(-1, Limb - 1), <<"Game B">>, PathJoin(scripts_dir, <<"umu-", "4", "0", ".sh">>),
             Str(IconFile(PyInt(Limb - 1, Limb - 1)))),
      Record(PyInt(-HalfLimb, 0), <<"Game B">>, PathJoin(scripts_dir, <<"x">>), Str(<<>>)),
      ForeignRecord,
      <<>>,
      << <<"appid", PyInt(HalfLimb - 1, Limb - 1)>>, <<"a", Str(<<>>)>> >>,
      << <<"a", Str(<<"a", "a">>)>>, <<"appid", PyInt(0, 0)>>, <<"x", PyInt(0, BinEnd)>> >> }
RECURSIVE CodecEntries(_)
CodecEntries(n) ==
    IF n = 0 THEN {<<>>}
    ELSE LET shorter == CodecEntries(n - 1)
         IN  shorter \cup
             { Append(es, [key |-> k, rec |-> r]) :
                 es \in {x \in shorter : Len(x) = n - 1},
                 k \in CodecKeys, r \in CodecRecords }
WellFormed(entries) ==
    \A i, j \in 1..Len(entries) : i # j => entries[i].key # entries[j].key

InitCodec ==
    /\ sha256_4 = [c \in Contents |-> <<0, 0, 0, 0>>]
    /\ exeFiles = [p \in ExePaths |-> "missing"]
    /\ runs = {}
    /\ session = 1
    /\ live = NoFile
    /\ backups = <<>>
    /\ grid = {}
    /\ clock = 0
    /\ callLog = <<>>
    /\ umuSel = NoRow /\ steamSel = NoRow /\ scriptName = <<>>
    /\ selection_clearing = FALSE /\ uiLog = <<>>
    /\ adds = <<>>
    /\ \E entries \in {es \in CodecEntries(MaxEntries) : WellFormed(es)} :
          codec = [stage |-> "tree", tree |-> TreeOf(entries), bytes |-> <<>>,
                   decoded |-> <<>>]

\* vdf.binary_dump(shortcuts, f)
Dump ==
    /\ codec.stage = "tree"
    /\ codec' = [codec EXCEPT !.stage = "bytes", !.bytes = binary_dumps(codec.tree)]
    /\ UNCHANGED <<exeVars, session, fsVars, clock, callLog, guiVars, adds>>

\* shortcuts = vdf.binary_load(f)
Load ==
    /\ codec.stage = "bytes"
    /\ codec' = [codec EXCEPT !.stage = "decoded", !.decoded = binary_loads(codec.bytes)]
    /\ UNCHANGED <<exeVars, session, fsVars, clock, callLog, guiVars, adds>>

NextCodec == Dump \/ Load
SpecCodec == InitCodec /\ [][NextCodec]_vars

(***************************************************************************)
(* Claims on generate_exeid, under SpecExeId.                              *)
(***************************************************************************)
Int32Min == PyInt(-HalfLimb, 0)
MinusOne == PyInt(-1, Limb - 1)
InNegativeInt32(v) ==
    /\ IsInt(v)
    /\ v.hi >= -HalfLimb /\ v.hi <= -1
    /\ v.lo >= 0 /\ v.lo < Limb

\* C1: for every readable executable, generate_exeid returns an integer in
\* [-2^31, -1], and packing it as a signed 32-bit value and unpacking the
\* bytes gives the same value back.
C1_ExeIdNegativeInt32 ==
    \A run \in runs :
        Readable(run.file) =>
            /\ run.res.outcome = "returned"
            /\ InNegativeInt32(run.res.value)
            /\ StructPackI(run.res.value).ok
            /\ StructUnpackI(StructPackI(run.res.value).bytes) = run.res.value

\* both ends of the range have been returned
C1_Witness ==
    /\ \E run \in runs : Readable(run.file) /\ run.res.value = Int32Min
    /\ \E run \in runs : Readable(run.file) /\ run.res.value = MinusOne

C4_DegenerateUnreachable ==
    \A run \in runs :
        /\ ~run.res.usedRandom
        /\ Readable(run.file) => ~IsZero(run.res.computed)

\* the digests nearest to the branch: h & 0x7FFFFFFF = 0, for h = 0 and 2^31
C4_Witness ==
    /\ \E run \in runs :
          /\ Readable(run.file) /\ sha256_4[run.file] = <<0, 0, 0, 0>>
          /\ run.res.computed = MinusOne
    /\ \E run \in runs :
          /\ Readable(run.file) /\ sha256_4[run.file] = <<0, 0, 0, 128>>
          /\ run.res.computed = MinusOne

(***************************************************************************)
(* Claims on backup_and_save, under SpecRotation and SpecBackup.           *)
(***************************************************************************)
LastCall == callLog[Len(callLog)]
CallTokens(from, to) == {callLog[i].token : i \in from..to}
DistinctTokens ==
    \A i, j \in 1..Len(callLog) : i # j => callLog[i].token # callLog[j].token
AllSucceeded == \A i \in 1..Len(callLog) : callLog[i].result = "True"

\* C8: from an empty backup directory and an existing live file, after n
\* calls under n distinct session tokens (n = 7 in particular) the backups
\* that remain are exactly those made by the min(n, 5) most recent calls,
\* each holding the live file as it was before its call.
C8_RotationKeepsLatest ==
    (DistinctTokens /\ AllSucceeded) =>
        LET n == Len(callLog)
            first == IF n > max_backups THEN n - max_backups + 1 ELSE 1
        IN  /\ DOMAIN backups = CallTokens(first, n)
            /\ Cardinality(DOMAIN backups) = n - first + 1
            /\ \A i \in first..n :
                  /\ callLog[i].copied
                  /\ backups[callLog[i].token].content =
                        (IF i = 1 THEN Data(<<0>>) ELSE Data(<<clock - n + i - 1>>))

\* 7 calls under 7 tokens have been made and 5 backups remain
C8_Witness ==
    /\ Len(callLog) = 7
    /\ DistinctTokens /\ AllSucceeded
    /\ Cardinality(DOMAIN backups) = 5
    /\ DOMAIN backups = CallTokens(3, 7)

\* C9: once a call has returned, the backup directory holds at most 5
\* backup files, whatever was there before and whatever failed.
C9_BackupCap ==
    (\E i \in 1..Len(callLog) : callLog[i].result # "raised") =>
        Cardinality(DOMAIN backups) <= max_backups

\* more than 5 backups were present, a call failed to write the live file
\* and returned, and 5 backups are left
C9_Witness ==
    /\ Len(callLog) = 1
    /\ LastCall.result = "False"
    /\ Cardinality(LastCall.removed) >= 2
    /\ LastCall.copied
    /\ Cardinality(DOMAIN backups) = max_backups

\* C10: a call made when the session's backup already exists leaves the
\* backup set as it is (no file created, deleted or changed) and, when it
\* succeeds, overwrites the live file with the new content.
C10_SameSessionCallKeepsBackups ==
    [][ (clock' # clock /\ session \in DOMAIN backups) =>
            /\ backups' = backups
            /\ live' = File(Data(<<clock'>>), clock') ]_vars

(***************************************************************************)
(* Claims on add_game_to_steam, under Spec.                                *)
(***************************************************************************)
\* the add-operations that computed an app_id (line 769 returned an integer)
WithExeId == {i \in 1..Len(adds) : adds[i].exe_id # PyNone}
\* the add-operations that assigned a key (line 768 was reached)
WithKey == {i \in 1..Len(adds) : adds[i].key # <<>>}
FieldValues(rec) == {rec[i][2] : i \in 1..Len(rec)}
Plus2To32(v) == PyInt(v.hi + Limb, v.lo)
InUpperUInt32(v) ==
    /\ IsInt(v)
    /\ v.hi >= HalfLimb /\ v.hi < Limb
    /\ v.lo >= 0 /\ v.lo < Limb
SampleIds == {NegativeId(FromBytesLittle(d)) : d \in DigestSamples}
NamedAfter(id) ==
    { PathJoin(artwork_path, PyStr(Plus2To32(id)) \o <<suffix>>) :
        suffix \in {"_icon.ico", ".jpg", "p.jpg", "_logo.png", "_hero.jpg"} }

\* C5: steam_file_id is app_id + 2^32 and lies in [2^31, 2^32 - 1], for the
\* app_id of every add-operation and for every sampled app_id; different
\* app_ids give different steam_file_ids; no field of the written record
\* holds steam_file_id, as a number or as its decimal string; the icon and
\* artwork files are named after it.
C5_SteamFileIdUnsigned ==
    /\ \A id \in SampleIds :
          /\ InNegativeInt32(id)
          /\ signed_to_unsigned(id).value = Plus2To32(id)
          /\ InUpperUInt32(signed_to_unsigned(id).value)
    /\ \A i \in WithExeId :
          LET a == adds[i]
          IN  /\ InNegativeInt32(a.exe_id)
              /\ a.steam_file_id = Plus2To32(a.exe_id)
              /\ InUpperUInt32(a.steam_file_id)
              /\ \A id \in SampleIds \cup {adds[j].exe_id : j \in WithExeId} :
                    id # a.exe_id => signed_to_unsigned(id).value # a.steam_file_id
              /\ a.record # <<>>
              /\ a.steam_file_id \notin FieldValues(a.record)
              /\ Str(PyStr(a.steam_file_id)) \notin FieldValues(a.record)
              /\ a.icon_path # <<>> => a.icon_path \in NamedAfter(a.exe_id)
    /\ \A f \in grid : \E i \in WithExeId : f \in NamedAfter(adds[i].exe_id)

\* an add-operation with app_id -2^31 saved the record, its icon and artwork
C5_Witness ==
    \E i \in WithExeId :
        /\ adds[i].outcome = "saved"
        /\ adds[i].exe_id = Int32Min
        /\ adds[i].steam_file_id = PyInt(HalfLimb, 0)
        /\ adds[i].icon_path \in grid
        /\ NamedAfter(adds[i].exe_id) \subseteq grid

KeysOf(entries) == [i \in 1..Len(entries) |-> entries[i].key]
ParsedKeys(entries) ==
    { PyParseInt(entries[i].key).value :
        i \in {j \in 1..Len(entries) : PyParseInt(entries[j].key).ok} }
MaxOf(S) == CHOOSE m \in S : \A n \in S : n <= m

\* C6 (as amended): the new record's key is the decimal string of
\* max({-1} and every existing key that parses as an integer) + 1; keys
\* {"0","2","5"} give "6", no keys give "0", {"x","1"} gives "2"; a saved
\* record is appended under that key and every existing entry is kept.
C6_KeyFollowsHighestFromMinusOne ==
    \A i \in WithKey :
        LET a == adds[i]
        IN  /\ a.key = IntStr(MaxOf({-1} \cup ParsedKeys(a.loaded)) + 1)
            /\ KeysOf(a.loaded) = << <<"0">>, <<"2">>, <<"5">> >> => a.key = <<"6">>
            /\ a.loaded = <<>> => a.key = <<"0">>
            /\ KeysOf(a.loaded) = << <<"x">>, <<"1">> >> => a.key = <<"2">>
            /\ (a.outcome = "saved" /\ i = Len(adds)) =>
                  live.content = Data(Append(a.loaded, [key |-> a.key, rec |-> a.record]))

\* keys {"0","2","5"} were loaded and the record was saved under "6"
C6_Witness ==
    \E i \in WithKey :
        /\ adds[i].outcome = "saved"
        /\ KeysOf(adds[i].loaded) = << <<"0">>, <<"2">>, <<"5">> >>
        /\ adds[i].key = <<"6">>
        /\ live.exists /\ live.content.kind = "data"
        /\ KeysOf(live.content.v) = << <<"0">>, <<"2">>, <<"5">>, <<"6">> >>

\* C6 (as stated): the key is the decimal string of (the maximum of the
\* existing keys that parse as integers, -1 when none does) + 1.
C6_KeyFollowsMaxOfParsed ==
    \A i \in WithKey :
        LET parsed == ParsedKeys(adds[i].loaded)
        IN  adds[i].key = IntStr((IF parsed = {} THEN -1 ELSE MaxOf(parsed)) + 1)

\* C7 (as stated): an add-operation with a row selected in either view, the
\* Steam path and user id found, the launch script present and readable and
\* no I/O failure reaches backup_and_save and writes the live file.
C7_AddRunsToCompletion ==
    \A i \in 1..Len(adds) :
        (adds[i].view # "none" /\ adds[i].found /\ Readable(adds[i].file) /\ adds[i].io_ok)
            => adds[i].outcome = "saved"

(***************************************************************************)
(* Claims on what backup_and_save leaves on disk, under SpecBackup.        *)
(***************************************************************************)
\* the first backup_and_save call made under token t
FirstCallOf(t) ==
    CHOOSE i \in 1..Len(callLog) :
        /\ callLog[i].token = t
        /\ \A j \in 1..(i - 1) : callLog[j].token # t

\* C11 (as stated): a backup file of a token under which calls were made
\* holds the content the live file had immediately before the first call
\* under that token.  Stated for the histories in which every call
\* returned True, so that no I/O failure is involved.
C11_BackupHoldsPreSessionContent ==
    AllSucceeded =>
    \A t \in DOMAIN backups \cap CallTokens(1, Len(callLog)) :
        LET first == callLog[FirstCallOf(t)]
        IN  /\ first.before.exists
            /\ backups[t].content = first.before.content

Ops(events) == [k \in 1..Len(events) |-> events[k].op]
Steps(events, op) == {k \in 1..Len(events) : events[k].op = op}
Failed(events, op) == \E k \in Steps(events, op) : ~events[k].ok
Done(events, op) == \E k \in Steps(events, op) : events[k].ok

\* C12: in every call, the live file is opened for writing only after the
\* backup step is over: the copy has completed, or it was skipped because
\* the session's backup exists or the live file does not; no test or copy
\* of the backup step comes after the open.  So a completed copy holds the
\* live file of before the call, and a failed copy leaves the live file
\* as it was.
C12_BackupBeforeOverwrite ==
    /\ \A i \in 1..Len(callLog) :
          LET ev == callLog[i].events
          IN  \A k \in Steps(ev, "open") :
                /\ \E j \in 1..(k - 1) :
                      \/ ev[j] = Ev("copy", TRUE)
                      \/ ev[j] = Ev("exists_backup", TRUE)
                      \/ ev[j] = Ev("exists_live", FALSE)
                /\ \A j \in (k + 1)..Len(ev) :
                      ev[j].op \notin {"copy", "exists_backup", "exists_live"}
    /\ callLog # <<>> =>
          /\ LastCall.copied =>
                /\ LastCall.token \in DOMAIN backups
                /\ backups[LastCall.token] = [content |-> LastCall.before.content,
                                              mtime |-> LastCall.before.mtime]
          /\ Failed(LastCall.events, "copy") => live = LastCall.before

\* a call copied the live file and then overwrote it
C12_Witness ==
    /\ callLog # <<>>
    /\ LastCall.result = "True" /\ LastCall.copied
    /\ Ops(LastCall.events) =
          <<"makedirs", "glob", "exists_backup", "exists_live", "copy", "open", "dump">>
    /\ live # LastCall.before
    /\ backups[LastCall.token].content = LastCall.before.content

\* C13 (as stated): when a call has copied the live file to the session's
\* backup and then fails to write the live file (open or dump fails), the
\* backup holds the pre-call content and the live file is exactly as it
\* was before the call.
C13_FailedWriteLeavesLiveUnmodified ==
    (/\ callLog # <<>>
     /\ LastCall.copied
     /\ Failed(LastCall.events, "open") \/ Failed(LastCall.events, "dump"))
        => /\ backups[LastCall.token].content = LastCall.before.content
           /\ live = LastCall.before

(***************************************************************************)
(* Claims on the add-operation's handling of files, under Spec.            *)
(***************************************************************************)
LastAdd == adds[Len(adds)]
\* the last add-operation called backup_and_save: LastCall is that call
LastAddCalled ==
    /\ adds # <<>>
    /\ LastAdd.outcome \in {"saved", "save_failed", "raised_save"}

\* C14: when an add-operation reaches backup_and_save and the shortcuts file
\* did not exist, the loaded collection is empty and the new key is "0"; the
\* call makes no copy and no backup file for the session; and when no I/O
\* step fails the call returns True and the live file holds exactly the
\* new record under "0".
C14_MissingLiveFileCreated ==
    (LastAddCalled /\ ~LastCall.before.exists) =>
        /\ LastAdd.loaded = <<>>
        /\ LastAdd.key = <<"0">>
        /\ ~LastCall.copied
        /\ Steps(LastCall.events, "copy") = {}
        /\ LastCall.token \notin DOMAIN backups
        /\ LastAdd.io_ok =>
              /\ LastAdd.outcome = "saved"
              /\ LastCall.result = "True"
              /\ live = File(Data(<<[key |-> <<"0">>, rec |-> LastAdd.record]>>), clock)

\* the file did not exist and the add-operation created it
C14_Witness ==
    /\ LastAddCalled /\ ~LastCall.before.exists
    /\ LastAdd.outcome = "saved"
    /\ live.exists /\ Len(live.content.v) = 1
    /\ live.content.v[1].key = <<"0">>
    /\ backups = <<>>

\* the add-operation of this step reached the load, the file existed, and
\* open raised an OSError or the decoder raised on a file it cannot decode
LoadFailsInStep ==
    /\ Len(adds') > Len(adds)
    /\ adds'[Len(adds')].reached_load
    /\ live.exists
    /\ \/ adds'[Len(adds')].open_fails
       \/ live.content.kind # "data" /\ adds'[Len(adds')].decode_raises

\* C15: an add-operation whose load of the existing shortcuts file fails
\* (open raises an OSError other than FileNotFoundError, or the decoder
\* raises) returns without calling backup_and_save: the live file, the
\* backup directory and the artwork directory are left as they were.
C15_LoadFailureIsFatal ==
    [][ LoadFailsInStep
           => /\ adds'[Len(adds')].outcome = "load_failed"
              /\ adds'[Len(adds')].record = <<>>
              /\ callLog' = callLog
              /\ fsVars' = fsVars ]_vars

\* the decoder raised on an existing file and the add-operation returned
C15_Witness ==
    /\ adds # <<>>
    /\ LastAdd.reached_load /\ LastAdd.decode_raises /\ ~LastAdd.open_fails
    /\ LastAdd.outcome = "load_failed"
    /\ live = File(Truncated, 0)
    /\ callLog = <<>>

\* C16 (as stated): an add-operation whose launch script is missing or
\* cannot be read ends without an exception leaving add_game_to_steam and
\* without a backup_and_save call.
C16_SourceFileUnavailableRecoverable ==
    [][ (/\ Len(adds') > Len(adds)
         /\ adds'[Len(adds')].key # <<>> \/ adds'[Len(adds')].outcome = "script_missing"
         /\ ~Readable(adds'[Len(adds')].file))
           => /\ adds'[Len(adds')].outcome \notin Raised
              /\ callLog' = callLog
              /\ fsVars' = fsVars ]_vars

\* C17: a call in which the copy to the backup, the open of the live file or
\* the dump into it fails returns False (no exception leaves it); the failed
\* step is the last one made on the two files, and copy, open and dump are
\* each attempted at most once.  A call returns True only when the dump
\* completed, and the live file then holds the collection passed in.
C17_FailureReportedOnce ==
    /\ \A i \in 1..Len(callLog) :
          LET ev == callLog[i].events
              failing == {k \in 1..Len(ev) : ev[k].op \in {"copy", "open", "dump"} /\ ~ev[k].ok}
          IN  /\ \A op \in {"copy", "open", "dump"} : Cardinality(Steps(ev, op)) <= 1
              /\ failing # {} =>
                    /\ callLog[i].result = "False"
                    /\ \A k \in failing : \A j \in (k + 1)..Len(ev) : ev[j].op = "remove_icon"
              /\ callLog[i].result = "True" => (failing = {} /\ Done(ev, "dump"))
    /\ (callLog # <<>> /\ LastCall.result = "True") => live = File(Data(<<clock>>), clock)

\* a call whose copy failed returned False and left the live file alone
C17_Witness ==
    /\ callLog # <<>>
    /\ Failed(LastCall.events, "copy")
    /\ LastCall.result = "False"
    /\ Steps(LastCall.events, "open") = {}
    /\ live = LastCall.before

Field(rec, name) == rec[CHOOSE k \in 1..Len(rec) : rec[k][1] = name][2]
IsStrLeaf(v) == DOMAIN v = {"kind", "s"} /\ v.kind = "str"
IsInt32Leaf(v) ==
    /\ DOMAIN v = {"kind", "hi", "lo"} /\ v.kind = "int"
    /\ v.hi >= -HalfLimb /\ v.hi < HalfLimb /\ v.lo >= 0 /\ v.lo < Limb

\* C20: in every add-operation that reached backup_and_save, every leaf of
\* the inserted record is a string or a 32-bit integer and none is None;
\* appid is an integer, and icon is "" when no icon was obtained and the
\* icon file's path otherwise.
C20_NoNullInRecord ==
    \A i \in 1..Len(adds) :
        adds[i].outcome \in {"saved", "save_failed", "raised_save"} =>
            LET rec == adds[i].record
            IN  /\ Len(rec) = 13
                /\ \A v \in FieldValues(rec) : v # PyNone /\ (IsStrLeaf(v) \/ IsInt32Leaf(v))
                /\ IsInt32Leaf(Field(rec, "appid"))
                /\ Field(rec, "icon") = Str(adds[i].icon_path)

\* a record was saved without an icon, and its icon field is ""
C20_Witness ==
    \E i \in 1..Len(adds) :
        /\ adds[i].outcome = "saved"
        /\ adds[i].icon_path = <<>>
        /\ Field(adds[i].record, "icon") = Str(<<>>)
        /\ Field(adds[i].record, "appid") = MinusOne

(***************************************************************************)
(* Claims on the inserted record and the collection, under Spec.           *)
(***************************************************************************)
FieldNames(rec) == [k \in 1..Len(rec) |-> rec[k][1]]
\* the add-operations that built a record (line 780 was reached)
WithRecord == {i \in 1..Len(adds) : adds[i].record # <<>>}

\* C21: the record an add-operation inserts has the 13 fields appid,
\* AppName, Exe, StartDir, icon, ShortcutPath, LaunchOptions, IsHidden,
\* AllowDesktopConfig, AllowOverlay, InGame, LastPlayTime, FlatpakAppID in
\* that order; appid is generate_exeid of the launch script, AppName the
\* selected row's title, Exe the script path between double quotes, StartDir
\* the scripts directory, ShortcutPath, LaunchOptions and FlatpakAppID "",
\* IsHidden, InGame and LastPlayTime "0", AllowDesktopConfig and
\* AllowOverlay "1"; a saved record is the one found in the live file.
C21_RecordFields ==
    \A i \in WithRecord :
        LET a == adds[i]
            rec == a.record
            path == scripts_dir \o <<"/">> \o a.script
        IN  /\ FieldNames(rec) =
                  <<"appid", "AppName", "Exe", "StartDir", "icon", "ShortcutPath",
                    "LaunchOptions", "IsHidden", "AllowDesktopConfig", "AllowOverlay",
                    "InGame", "LastPlayTime", "FlatpakAppID">>
            /\ Field(rec, "appid") = generate_exeid(path, a.file, PyInt(0, 0)).value
            /\ a.file = "c1" => Field(rec, "appid") = MinusOne
            /\ a.file = "c2" => Field(rec, "appid") = Int32Min
            /\ Field(rec, "AppName") = Str(a.row.title)
            /\ Field(rec, "Exe") = Str(<<"\"">> \o path \o <<"\"">>)
            /\ Field(rec, "StartDir") = Str(scripts_dir)
            /\ \A f \in {"ShortcutPath", "LaunchOptions", "FlatpakAppID"} :
                  Field(rec, f) = Str(<<>>)
            /\ \A f \in {"IsHidden", "InGame", "LastPlayTime"} :
                  Field(rec, f) = Str(<<"0">>)
            /\ \A f \in {"AllowDesktopConfig", "AllowOverlay"} :
                  Field(rec, f) = Str(<<"1">>)
            /\ (a.outcome = "saved" /\ i = Len(adds)) =>
                  \E k \in 1..Len(live.content.v) :
                      live.content.v[k] = [key |-> a.key, rec |-> rec]

\* the Steam row "Game B" was selected and its record saved with the quoted
\* path of umu-40.sh
C21_Witness ==
    \E i \in WithRecord :
        /\ adds[i].outcome = "saved"
        /\ adds[i].row.title = <<"Game B">>
        /\ Field(adds[i].record, "AppName") = Str(<<"Game B">>)
        /\ Field(adds[i].record, "Exe") =
              Str(<<"\"", "scripts", "/", "umu-", "4", "0", ".sh", "\"">>)
        /\ live.exists /\ live.content.kind = "data"

\* C22: in every add-operation that reached backup_and_save, whatever
\* keys were loaded (non-integers, leading zeros, signs, gaps), the new key
\* differs from every loaded key, the collection passed to the save holds
\* every loaded entry unchanged at its place followed by the new record,
\* and so has one entry more; a successful save writes that collection.
C22_OneRecordInserted ==
    \A i \in WithRecord :
        LET a == adds[i]
            old == a.loaded
            new == a.shortcuts
        IN  /\ \A k \in 1..Len(old) : old[k].key # a.key
            /\ Len(new) = Len(old) + 1
            /\ \A k \in 1..Len(old) : new[k] = old[k]
            /\ new[Len(new)] = [key |-> a.key, rec |-> a.record]
            /\ \A j, k \in 1..Len(new) : j # k => new[j].key # new[k].key
            /\ (a.outcome = "saved" /\ i = Len(adds)) => live.content = Data(new)

\* keys "1_0" and "007" were loaded and the record went in under "11"
C22_Witness ==
    \E i \in WithRecord :
        /\ adds[i].outcome = "saved"
        /\ KeysOf(adds[i].loaded) = << <<"1", "_", "0">>, <<"0", "0", "7">> >>
        /\ adds[i].key = <<"1", "1">>
        /\ Len(adds[i].shortcuts) = 3
        /\ \A k \in 1..2 : adds[i].shortcuts[k].rec = ForeignRecord

(***************************************************************************)
(* Claims on the rotation and on the backup files, under SpecBackup.       *)
(***************************************************************************)
\* the call made in this step
StepCall == callLog'[Len(callLog')]
\* a call was made in this step and its rotation loop ran to its end
RotationDoneInStep ==
    /\ Len(callLog') > Len(callLog)
    /\ Done(StepCall.events, "glob")
    /\ ~Failed(StepCall.events, "remove")

\* C23: a call that finds n backup files deletes max(0, n - 4) of them in
\* its rotation step, none when n < 5; every backup it keeps has a
\* modification time greater than or equal to that of every backup it
\* deletes; the kept ones are still there after the call, and a deleted
\* one is there only if it is the session's own and the call copied it anew.
C23_RotationDeletesOldest ==
    [][ RotationDoneInStep =>
          LET n == Cardinality(DOMAIN backups)
              deleted == StepCall.removed
              kept == DOMAIN backups \ deleted
          IN  /\ deleted \subseteq DOMAIN backups
              /\ Cardinality(deleted) = (IF n > 4 THEN n - 4 ELSE 0)
              /\ n < 5 => deleted = {}
              /\ Cardinality(Steps(StepCall.events, "remove")) = Cardinality(deleted)
              /\ \A k \in kept, d \in deleted : backups[k].mtime >= backups[d].mtime
              /\ \A k \in kept : k \in DOMAIN backups' /\ backups'[k] = backups[k]
              /\ \A d \in deleted :
                    d \in DOMAIN backups' =>
                        (d = session /\ Steps(StepCall.events, "copy") # {}) ]_vars

\* a call found 6 backups, deleted the 2 oldest and kept 4 that are newer
C23_Witness ==
    /\ Len(callLog) = 1
    /\ Cardinality(LastCall.removed) = 2
    /\ Cardinality(DOMAIN backups \ {LastCall.token}) = 4
    /\ LastCall.removed \cap DOMAIN backups = {}
    /\ \A k \in DOMAIN backups \ {LastCall.token} : backups[k].mtime > -5

\* C26: a call never writes to a backup path that exists: every backup file
\* the rotation of the call did not delete is, after the call, the file it
\* was before; a copy is attempted only once the test for the session's
\* backup has come out false; and the only backup path that is there after
\* the call without having been there before, or after the rotation
\* deleted it, is the one of the call's session token.
C26_BackupsWriteOnce ==
    [][ Len(callLog') > Len(callLog) =>
          LET ev == StepCall.events
              deleted == StepCall.removed
          IN  /\ \A t \in DOMAIN backups \ deleted :
                    t \in DOMAIN backups' /\ backups'[t] = backups[t]
              /\ \A t \in DOMAIN backups' :
                    (t \notin DOMAIN backups \/ t \in deleted) => t = session
              /\ \A k \in Steps(ev, "copy") :
                    /\ session \notin DOMAIN backups \ deleted
                    /\ \E j \in 1..(k - 1) : ev[j] = Ev("exists_backup", FALSE)
              /\ (session \in DOMAIN backups \ deleted) => Steps(ev, "copy") = {} ]_vars

\* two calls under one token: the first made the backup, the second wrote
\* the live file again and left the backup as the first made it
C26_Witness ==
    /\ Len(callLog) = 2
    /\ callLog[1].token = callLog[2].token
    /\ callLog[1].copied /\ callLog[1].result = "True"
    /\ callLog[2].result = "True" /\ callLog[2].removed = {}
    /\ Steps(callLog[2].events, "copy") = {}
    /\ backups[callLog[2].token] = [content |-> callLog[1].before.content,
                                    mtime |-> callLog[1].before.mtime]
    /\ live # callLog[2].before

(***************************************************************************)
(* Claims on what an add-operation leaves on disk, under Spec.             *)
(***************************************************************************)
\* the add-operation made in this step
StepAdd == adds'[Len(adds')]
\* an add-operation was made in this step with no row selected, without a
\* Steam installation or user id, with an empty script name, or with a
\* script name that names no file
RejectedInStep ==
    /\ Len(adds') > Len(adds)
    /\ \/ StepAdd.view = "none"
       \/ ~StepAdd.found
       \/ StepAdd.script = <<>>
       \/ StepAdd.file = "missing"

C25_NoOrphanArtworkAfterFailedSave ==
    (adds # <<>> /\ LastAdd.outcome = "save_failed") =>
        grid \cap NamedAfter(LastAdd.exe_id) = {}

(***************************************************************************)
(* Claims on the selection handlers, under SpecGui.                        *)
(***************************************************************************)
\* the steps of on_tree_view_selection_changed in the log
HandlerSteps == {k \in 1..Len(uiLog) : uiLog[k].slot = "on_tree_view_selection_changed"}
Entered == {k \in HandlerSteps : uiLog[k].what = "enter"}
Left == {k \in HandlerSteps : uiLog[k].what \in {"exit", "raise"}}
\* the user's last action was on a row and the slots ran to their end
SlotsRan ==
    /\ uiLog # <<>>
    /\ uiLog[1].what \in {"select", "deselect"}
    /\ uiLog[Len(uiLog)].what # "raise"

\* C27: whatever the user selected, deselected or searched, at most one of
\* the two views has a selection once the slots have run, and the row just
\* selected is the one selected; selection_clearing is False between user
\* actions and is False at every step at which the handler is left, by
\* return or by exception; the handler is never entered while it is
\* running: every activation between an entry and its exit returns at the
\* guard, with selection_clearing set.
C27_MutuallyExclusiveSelection ==
    /\ umuSel = NoRow \/ steamSel = NoRow
    /\ selection_clearing = FALSE
    /\ \A k \in Left : uiLog[k].flag = FALSE
    /\ \A k \in Entered :
          \E m \in Left :
              /\ m > k /\ uiLog[m].view = uiLog[k].view
              /\ \A j \in (k + 1)..(m - 1) :
                    /\ uiLog[j].what = "return" /\ uiLog[j].flag = TRUE
                    /\ uiLog[j].view # uiLog[k].view
    /\ \A k \in HandlerSteps :
          uiLog[k].what = "return" => \E e \in Entered : \E m \in Left : e < k /\ k < m
    /\ (SlotsRan /\ uiLog[1].what = "select") =>
          (IF uiLog[1].view = "umu" THEN umuSel ELSE steamSel) # NoRow

\* with a row of the UMU view selected the user selected one of the Steam
\* view: the handler cleared the UMU view, whose own activation returned at
\* the guard
C27_Witness ==
    /\ steamSel # NoRow /\ umuSel = NoRow
    /\ ~selection_clearing
    /\ [k \in 1..Len(uiLog) |-> <<uiLog[k].view, uiLog[k].what, uiLog[k].flag>>] =
          << <<"steam", "select", FALSE>>, <<"steam", "enter", TRUE>>,
             <<"umu", "return", TRUE>>, <<"steam", "exit", FALSE>> >>

\* C28: once the slots have run after the user selected or deselected a
\* row, the script name field holds the selected row's UMU_ID followed by
\* ".sh", and is empty exactly when neither view has a selection; an
\* add-operation that follows and hashes a file hashes the script of the
\* selected row.
C28_ScriptNameFollowsSelection ==
    /\ SlotsRan =>
          LET row == IF umuSel # NoRow THEN umuSel ELSE steamSel
          IN  /\ row # NoRow => scriptName = row.umu_id \o <<".sh">>
              /\ scriptName = <<>> <=> (umuSel = NoRow /\ steamSel = NoRow)
    /\ \A i \in 1..Len(adds) :
          (adds[i].after_select /\ adds[i].exe_id # PyNone) =>
              /\ adds[i].script = adds[i].row.umu_id \o <<".sh">>
              /\ adds[i].file = exeFiles[ScriptOf(adds[i].row)]
              /\ adds[i].exe_id =
                    NegativeId(FromBytesLittle(sha256_4[exeFiles[ScriptOf(adds[i].row)]]))

\* the user went from the UMU row to the Steam row and added it: the name
\* was umu-40.sh and the id is that of its content
C28_Witness ==
    /\ SlotsRan /\ Len(uiLog) = 4
    /\ steamSel # NoRow
    /\ scriptName = <<"umu-", "4", "0", ".sh">>
    /\ adds # <<>>
    /\ LastAdd.after_select /\ LastAdd.outcome = "saved"
    /\ LastAdd.script = scriptName
    /\ LastAdd.exe_id = Int32Min

(***************************************************************************)
(* Claims on the codec, under SpecCodec.                                   *)
(***************************************************************************)
\* C18: decoding the bytes the save step writes for a well-formed
\* collection gives the collection back: the same keys in the same order
\* with the same string and integer values.
C18_CodecRoundTrip ==
    codec.stage = "decoded" =>
        /\ codec.decoded.ok
        /\ codec.decoded.tree = codec.tree
        /\ binary_dumps(codec.decoded.tree) = codec.bytes

\* a collection of two records, one of them built by add_game_to_steam with
\* appid -1 and an icon, came back from the codec
C18_Witness ==
    /\ codec.stage = "decoded"
    /\ codec.decoded.ok
    /\ Len(codec.tree.v[1].val.v) = 2
    /\ \E i \in 1..2 :
          LET rec == codec.decoded.tree.v[1].val.v[i].val.v
          IN  /\ Len(rec) = 13
              /\ rec[1] = Node(<<"appid">>, MinusOne)
              /\ rec[5].val # Str(<<>>)

====
